---- MODULE Spec2Model ----
(***************************************************************************)
(* Adaptive confidence statistics (apps/api/services/confidence.py), the   *)
(* CRAG evaluator built on them (apps/api/evaluation/crag.py), reciprocal  *)
(* rank fusion (app/retrieval/rrf.py), query expansion                     *)
(* (apps/api/retrieval/query_expansion.py), the RAG fusion pipeline        *)
(* (apps/api/retrieval/pipeline.py) and the ticket lifecycle               *)
(* (app/tickets/state.py, service.py, repository.py).                      *)
(*                                                                         *)
(* Python floats are modelled as exact rationals <<numerator, denominator>>*)
(* in lowest terms with a positive denominator.  The `updated_at` column   *)
(* is left out: no operation reads it.                                     *)
(*                                                                         *)
(* Specifications: Spec (two evaluator tasks on one repository),           *)
(* SpecRecord (one caller of record_outcome), SpecRRF (one call of         *)
(* reciprocal_rank_fusion), SpecExpand (one call of QueryExpander.expand), *)
(* SpecPipeline (one call of RAGFusionPipeline.retrieve), SpecTickets (two *)
(* callers of TicketService.change_status on one ticket).                  *)
(***************************************************************************)
EXTENDS Integers, Sequences, FiniteSets, TLC

VARIABLES
    cfg,        \* the ConfidenceStatsRepository fields set by __init__
    table,      \* rows of the confidence_stats table (primary key: metric)
    pc,         \* per evaluator task: the await point it is suspended at
    op,         \* per task: the top-level call it is running
    loc,        \* per task: the locals of the running call
    ret,        \* per task: what its last top-level call returned or raised
    done,       \* history: completed record_outcome calls, by passed flag
    budget,     \* number of top-level calls started so far
    result_sets,\* the lists of ScoredDocument objects handed to the fusion
    rrf_call,   \* the other arguments of the reciprocal_rank_fusion call
    fused,      \* what reciprocal_rank_fusion returned or raised
    expander,   \* the QueryExpander: strategies, max_expansions, include_original
    expand,     \* the running QueryExpander.expand call: its locals
    expanded,   \* what QueryExpander.expand returned
    pipeline,   \* the RAGFusionPipeline: expander, retrievers, rrf_k, limit
    retrieve,   \* the running RAGFusionPipeline.retrieve call: its locals
    retrieved,  \* what RAGFusionPipeline.retrieve returned or raised
    ticket,     \* the row of the one ticket in the tickets table
    audit_logs, \* the rows of ticket_audit_logs, oldest first
    change,     \* per caller: the running TicketService.change_status call
    changes     \* number of change_status calls started so far

confidenceVars == <<cfg, table, pc, op, loc, ret, done, budget>>
rrfVars == <<result_sets, rrf_call, fused>>
expanderVars == <<expander, expand, expanded>>
pipelineVars == <<pipeline, retrieve, retrieved>>
retrievalVars == <<rrfVars, expanderVars, pipelineVars>>
ticketVars == <<ticket, audit_logs, change, changes>>
vars == <<confidenceVars, retrievalVars, ticketVars>>

\* ------------------------------------------------------------------ bounds
MaxOps == 2
MaxBatch == 2

Tasks == {"t1", "t2"}
Metrics == {"retrieval"}

\* ------------------------------------------------------- exact rationals
RECURSIVE GCD(_, _)
GCD(a, b) == IF b = 0 THEN a ELSE GCD(b, a % b)

Abs(n) == IF n < 0 THEN -n ELSE n

Rat(n, d) ==
    LET s == IF d < 0 THEN -1 ELSE 1
        g == GCD(Abs(n), Abs(d))
    IN  <<(s * n) \div g, (s * d) \div g>>

RAdd(x, y) == Rat(x[1] * y[2] + y[1] * x[2], x[2] * y[2])
RSub(x, y) == Rat(x[1] * y[2] - y[1] * x[2], x[2] * y[2])
RMul(x, y) == Rat(x[1] * y[1], x[2] * y[2])
\* x < y, over the least common denominator
Less(x, y) ==
    IF x[2] = y[2] THEN x[1] < y[1]
    ELSE LET g == GCD(x[2], y[2])
         IN  x[1] * (y[2] \div g) < y[1] * (x[2] \div g)
RLeq(x, y) == ~Less(y, x)
RGeq(x, y) == RLeq(y, x)
RLt(x, y) == Less(x, y)
RMax(x, y) == IF RLt(x, y) THEN y ELSE x
RMin(x, y) == IF RLt(y, x) THEN y ELSE x

Zero == Rat(0, 1)
One == Rat(1, 1)
Half == Rat(1, 2)
BiasScale == Rat(2, 10)

\* ------------------------------------------------------ ConfidenceStats
NoRow == [metric |-> "none"]

Stats(m, n, s, f, rs, rt) ==
    [metric |-> m, sample_count |-> n, success_count |-> s,
     failure_count |-> f, rolling_score |-> rs, rolling_threshold |-> rt]

with_default(metric, threshold) == Stats(metric, 0, 0, 0, threshold, threshold)

RollingScoreAlwaysSmoothed(S, score, alpha) ==
    RAdd(S.rolling_score, RMul(alpha, RSub(score, S.rolling_score)))

RollingScore(S, score, alpha) ==
    IF S.sample_count = 0
    THEN score
    ELSE RAdd(S.rolling_score, RMul(alpha, RSub(score, S.rolling_score)))

ClampUpperOnly(lo, hi, x) == RMin(hi, x)

Clamp(lo, hi, x) == RMax(lo, RMin(hi, x))

updated_stale_rate(S, score, passed, smoothing_factor, min_threshold, max_threshold) ==
    LET success_count == S.success_count + (IF passed THEN 1 ELSE 0)
        failure_count == S.failure_count + (IF passed THEN 0 ELSE 1)
        rolling_score == RollingScore(S, score, smoothing_factor)
        success_rate == IF S.sample_count # 0
                        THEN Rat(S.success_count, S.sample_count) ELSE Zero
    IN  Stats(S.metric, success_count + failure_count, success_count,
              failure_count, rolling_score,
              Clamp(min_threshold, max_threshold,
                    RAdd(rolling_score,
                         RMul(RSub(success_rate, Half), BiasScale))))

updated(S, score, passed, smoothing_factor, min_threshold, max_threshold) ==
    LET success_count == S.success_count + (IF passed THEN 1 ELSE 0)
        failure_count == S.failure_count + (IF passed THEN 0 ELSE 1)
        sample_count == success_count + failure_count
        rolling_score == RollingScore(S, score, smoothing_factor)
        success_rate == IF sample_count # 0
                        THEN Rat(success_count, sample_count) ELSE Zero
        dynamic_bias == RMul(RSub(success_rate, Half), BiasScale)
        base_threshold == RAdd(rolling_score, dynamic_bias)
        rolling_threshold == Clamp(min_threshold, max_threshold, base_threshold)
    IN  Stats(S.metric, sample_count, success_count, failure_count,
              rolling_score, rolling_threshold)

\* ------------------------------------ ConfidenceStatsRepository.__init__
RawConfig(d, a, lo, hi) ==
    [default_threshold |-> d, smoothing_factor |-> a,
     min_threshold |-> lo, max_threshold |-> hi]

\* the constructor's defaults with the smoothing of the spec's scenario, a
\* default above max_threshold, and a configuration __init__ rejects
RawConfigs ==
    { RawConfig(Rat(6, 10), Rat(3, 10), Rat(2, 10), Rat(95, 100)),
      RawConfig(One, Rat(2, 10), Rat(2, 10), Rat(9, 10)),
      RawConfig(Rat(6, 10), Zero, Rat(2, 10), Rat(95, 100)) }

ValidConfig(c) ==
    /\ RLt(Zero, c.smoothing_factor) /\ RLeq(c.smoothing_factor, One)
    /\ RLeq(Zero, c.min_threshold) /\ RLeq(c.min_threshold, c.max_threshold)
    /\ RLeq(c.max_threshold, One)

NewRepository(c) ==
    [smoothing_factor |-> c.smoothing_factor,
     min_threshold |-> c.min_threshold,
     max_threshold |-> c.max_threshold,
     default_threshold |->
         RMax(c.min_threshold, RMin(c.max_threshold, c.default_threshold))]


\* ------------------------------------------------- confidence_stats table
\* session.get(ConfidenceStatsTable, metric): the row with that primary key
Get(m) ==
    IF \E r \in table : r.metric = m
    THEN CHOOSE r \in table : r.metric = m
    ELSE NoRow

_table_to_stats(row) ==
    Stats(row.metric, row.sample_count, row.success_count, row.failure_count,
          row.rolling_score, row.rolling_threshold)

\* The stats a reader of the metric is given: the row, or the seed.
EffStats(m) ==
    IF Get(m) = NoRow THEN with_default(m, cfg.default_threshold)
    ELSE _table_to_stats(Get(m))

\* INSERT of a new row at commit: the primary key rejects a second row.
CanInsert(row) == Get(row.metric) = NoRow

\* UPDATE at commit: the unit of work writes the columns whose value differs
\* from the value loaded by session.get, onto the row as it is now.
FlushUpdate(db, loaded, new) ==
    [c \in DOMAIN db |-> IF new[c] # loaded[c] THEN new[c] ELSE db[c]]

\* ------------------------------------------------------------ the tasks
Scores == {Zero, Rat(6, 10), One}
\* what ScoreBackend.score does: return a float, or raise
BackendOutcomes ==
    {[raised |-> FALSE, value |-> s] : s \in Scores}
        \cup {[raised |-> TRUE, value |-> Zero]}

NoLocals ==
    [metric |-> "none", update_stats |-> FALSE, stats_before |-> NoRow,
     score |-> Zero, passed |-> FALSE,
     ro_score |-> Zero, ro_passed |-> FALSE, loaded |-> NoRow, read |-> NoRow,
     updated |-> NoRow, candidates |-> 0, results |-> <<>>,
     \* history, for the properties only: has another task committed a write
     \* since this call began, since this evaluation read the threshold, since
     \* this record_outcome read the row; did the backend raise; how many
     \* outcomes has the running evaluation recorded; the metric's persisted
     \* stats when this evaluation read them
     call_foreign |-> FALSE, ev_foreign |-> FALSE, ro_foreign |-> FALSE,
     backend_failed |-> FALSE, recorded |-> 0, seen |-> NoRow]

NoReturn == [kind |-> "none"]

\* No fusion is asked for while the evaluator tasks run.
NoFusion == [k |-> 0]
NotFused == [kind |-> "none"]
FusionIdle ==
    /\ result_sets = <<>>
    /\ rrf_call = NoFusion
    /\ fused = NotFused

\* No query is expanded either.
NoExpander == [max_expansions |-> 0]
NoExpansion == [at |-> "none"]
NotExpanded == [kind |-> "none"]
ExpanderIdle ==
    /\ expander = NoExpander
    /\ expand = NoExpansion
    /\ expanded = NotExpanded

\* No retrieval runs.
NoPipeline == [rrf_k |-> 0]
NoRetrieval == [at |-> "none"]
NotRetrieved == [kind |-> "none"]
PipelineIdle ==
    /\ pipeline = NoPipeline
    /\ retrieve = NoRetrieval
    /\ retrieved = NotRetrieved

RetrievalIdle == FusionIdle /\ ExpanderIdle /\ PipelineIdle

\* No ticket changes its status.
NoTicket == [status |-> "none"]
NoChange == [at |-> "idle"]
TicketsIdle ==
    /\ ticket = NoTicket
    /\ audit_logs = <<>>
    /\ change = [p \in Tasks |-> NoChange]
    /\ changes = 0

Init ==
    /\ RetrievalIdle
    /\ TicketsIdle
    /\ cfg \in {NewRepository(c) : c \in {r \in RawConfigs : ValidConfig(r)}}
    /\ table = {}
    /\ pc = [p \in Tasks |-> "idle"]
    /\ op = [p \in Tasks |-> "none"]
    /\ loc = [p \in Tasks |-> NoLocals]
    /\ ret = [p \in Tasks |-> NoReturn]
    /\ done = [m \in Metrics |-> [passed |-> 0, failed |-> 0]]
    /\ budget = 0

\* A committed write by p is a foreign write to every other task.
Disturb(p, mine) ==
    [q \in Tasks |->
        IF q = p THEN mine
        ELSE [loc[q] EXCEPT !.call_foreign = TRUE, !.ev_foreign = TRUE,
                            !.ro_foreign = TRUE]]

\* budget counts the evaluations and repository calls asked for so far
Start(p, call, first, locals, cost) ==
    /\ budget + cost <= MaxOps
    /\ budget' = budget + cost
    /\ op' = [op EXCEPT ![p] = call]
    /\ pc' = [pc EXCEPT ![p] = first]
    /\ loc' = [loc EXCEPT ![p] = locals]
    /\ ret' = [ret EXCEPT ![p] = NoReturn]
    /\ UNCHANGED <<cfg, table, done, retrievalVars, ticketVars>>

CallEnsureMetric(p) ==
    /\ pc[p] = "idle"
    /\ \E m \in Metrics :
           Start(p, "ensure_metric", "em_get",
                 [NoLocals EXCEPT !.metric = m], 1)

CallRecordOutcome(p) ==
    /\ pc[p] = "idle"
    /\ \E m \in Metrics, s \in Scores, b \in BOOLEAN :
           Start(p, "record_outcome", "ro_get",
                 [NoLocals EXCEPT !.metric = m, !.ro_score = s, !.ro_passed = b],
                 1)

CallEvaluate(p) ==
    /\ pc[p] = "idle"
    /\ \E m \in Metrics, u \in BOOLEAN :
           Start(p, "evaluate", "em_get",
                 [NoLocals EXCEPT !.metric = m, !.update_stats = u,
                                  !.candidates = 1],
                 1)

CallBatchEvaluate(p) ==
    /\ pc[p] = "idle"
    /\ \E m \in Metrics, u \in BOOLEAN, n \in 1..MaxBatch :
           Start(p, "batch_evaluate", "em_get",
                 [NoLocals EXCEPT !.metric = m, !.update_stats = u,
                                  !.candidates = n],
                 n)

\* batch_evaluate([]) runs no evaluation and returns the empty list
CallBatchEvaluateEmpty(p) ==
    /\ pc[p] = "idle"
    /\ budget < MaxOps
    /\ budget' = budget + 1
    /\ op' = [op EXCEPT ![p] = "batch_evaluate"]
    /\ loc' = [loc EXCEPT ![p] = NoLocals]
    /\ ret' = [ret EXCEPT ![p] = [kind |-> "results", value |-> <<>>]]
    /\ UNCHANGED <<cfg, table, pc, done, retrievalVars, ticketVars>>

\* What a step leaves task p with.
Goto(label, l, r) == [pc |-> label, loc |-> l, ret |-> r]

\* An exception leaves the running call, whatever its depth.
Raise(l, error) == Goto("idle", l, [kind |-> error])

\* ------------------------------------------------- EvaluationResult
EvaluationResultAppliedAfter(l, stats_after) ==
    [candidate |-> Len(l.results) + 1, score |-> l.score, passed |-> l.passed,
     applied_threshold |-> stats_after.rolling_threshold,
     updated_threshold |-> stats_after.rolling_threshold,
     metadata |-> [metric |-> l.metric, passed |-> l.passed]]

\* candidates are named by their position in the input of batch_evaluate
EvaluationResult(l, stats_after) ==
    [candidate |-> Len(l.results) + 1, score |-> l.score, passed |-> l.passed,
     applied_threshold |-> l.stats_before.rolling_threshold,
     updated_threshold |-> stats_after.rolling_threshold,
     metadata |-> [metric |-> l.metric, passed |-> l.passed]]

\* batch_evaluate reusing the stats of its first evaluation for every candidate
ReturnFromEvaluateStaleSnapshot(p, l, stats_after) ==
    LET res == EvaluationResult(l, stats_after)
        results == Append(l.results, res)
        left == l.candidates - Len(results)
        next == [l EXCEPT !.results = results]
    IN  IF op[p] = "evaluate"
        THEN Goto("idle", l, [kind |-> "result", value |-> res])
        ELSE IF left = 0
             THEN Goto("idle", next, [kind |-> "results", value |-> results])
             ELSE Goto("ev_backend", next, ret[p])

\* evaluate returns: to its caller, or into the loop of batch_evaluate, which
\* appends the result and goes on to the next candidate
ReturnFromEvaluate(p, l, stats_after) ==
    LET res == EvaluationResult(l, stats_after)
        results == Append(l.results, res)
        left == l.candidates - Len(results)
        next == [l EXCEPT !.results = results]
    IN  IF op[p] = "evaluate"
        THEN Goto("idle", l, [kind |-> "result", value |-> res])
        ELSE IF left = 0
             THEN Goto("idle", next, [kind |-> "results", value |-> results])
             ELSE Goto("em_get", next, ret[p])

\* ensure_metric returns: to its caller, or into evaluate
ReturnFromEnsureMetric(p, l, stats) ==
    IF op[p] = "ensure_metric"
    THEN Goto("idle", l, [kind |-> "stats", value |-> stats])
    ELSE Goto("ev_backend", [l EXCEPT !.stats_before = stats], ret[p])

\* record_outcome returns: to its caller, or into evaluate
ReturnFromRecordOutcome(p, l, stats) ==
    IF op[p] = "record_outcome"
    THEN Goto("idle", l, [kind |-> "stats", value |-> stats])
    ELSE ReturnFromEvaluate(p, l, stats)

\* A step of p that writes nothing to the table.
Local(p, g) ==
    /\ pc' = [pc EXCEPT ![p] = g.pc]
    /\ loc' = [loc EXCEPT ![p] = g.loc]
    /\ ret' = [ret EXCEPT ![p] = g.ret]
    /\ UNCHANGED <<retrievalVars, ticketVars>>

\* A step of p that commits a write, which the other running calls may see.
Committed(p, g) ==
    /\ pc' = [pc EXCEPT ![p] = g.pc]
    /\ loc' = Disturb(p, g.loc)
    /\ ret' = [ret EXCEPT ![p] = g.ret]
    /\ UNCHANGED <<retrievalVars, ticketVars>>


\* ------------------------------------ ConfidenceStatsRepository.ensure_metric
\* row = await session.get(...); an existing row is returned as stats
EnsureMetricGet(p) ==
    /\ pc[p] = "em_get"
    /\ LET l == [loc[p] EXCEPT !.ev_foreign = FALSE, !.backend_failed = FALSE,
                               !.recorded = 0,
                               !.seen = EffStats(loc[p].metric)]
           row == Get(l.metric)
           seed == with_default(l.metric, cfg.default_threshold)
       IN  IF row # NoRow
           THEN Local(p, ReturnFromEnsureMetric(p, l, _table_to_stats(row)))
           ELSE Local(p, Goto("em_commit", [l EXCEPT !.stats_before = seed], ret[p]))
    /\ UNCHANGED <<cfg, table, op, done, budget>>

\* session.add(row); await session.commit(); return stats
EnsureMetricCommit(p) ==
    /\ pc[p] = "em_commit"
    /\ LET l == loc[p]
           row == l.stats_before
       IN  IF CanInsert(row)
           THEN /\ table' = table \cup {row}
                /\ Committed(p, ReturnFromEnsureMetric(p, l, l.stats_before))
           ELSE /\ Local(p, Raise(l, "IntegrityError"))
                /\ UNCHANGED table
    /\ UNCHANGED <<cfg, op, done, budget>>

\* ------------------------------------ ConfidenceStatsRepository.record_outcome
\* row = await session.get(...); stats; updated = stats.updated(...)
RecordOutcomeGet(p) ==
    /\ pc[p] = "ro_get"
    /\ LET l == loc[p]
           row == Get(l.metric)
           stats == IF row = NoRow
                    THEN with_default(l.metric, cfg.default_threshold)
                    ELSE _table_to_stats(row)
           upd == updated(stats, l.ro_score, l.ro_passed, cfg.smoothing_factor,
                          cfg.min_threshold, cfg.max_threshold)
       IN  Local(p, Goto("ro_commit",
                         [l EXCEPT !.loaded = row, !.read = stats,
                                   !.updated = upd, !.ro_foreign = FALSE],
                         ret[p]))
    /\ UNCHANGED <<cfg, table, op, done, budget>>

\* the row's columns are assigned; await session.commit(); return updated
RecordOutcomeCommit(p) ==
    /\ pc[p] = "ro_commit"
    /\ LET l == loc[p]
           upd == l.updated
           db == Get(l.metric)
           ok == l.loaded # NoRow \/ CanInsert(upd)
           counted == [l EXCEPT !.recorded = @ + 1]
       IN  IF ok
           THEN /\ table' = IF l.loaded = NoRow
                            THEN table \cup {upd}
                            ELSE (table \ {db}) \cup {FlushUpdate(db, l.loaded, upd)}
                /\ done' = [done EXCEPT ![l.metric] =
                               IF l.ro_passed
                               THEN [@ EXCEPT !.passed = @ + 1]
                               ELSE [@ EXCEPT !.failed = @ + 1]]
                /\ Committed(p, ReturnFromRecordOutcome(p, counted, upd))
           ELSE /\ Local(p, Raise(l, "IntegrityError"))
                /\ UNCHANGED <<table, done>>
    /\ UNCHANGED <<cfg, op, budget>>

\* ------------------------------------------- CRAGConfidenceEvaluator.evaluate
_call_backend_failure_as_zero(b) == [raised |-> FALSE, value |-> b.value]

_call_backend(b) == b

GateStrict(score, threshold) == RLt(threshold, score)

Gate(score, threshold) == RGeq(score, threshold)

UpdateStatsIgnored(update_stats) == TRUE

UpdateStats(update_stats) == update_stats

\* score = await self._call_backend(candidate); passed; then record_outcome
\* is entered, or the result is built from stats_before
EvaluateScore(p) ==
    /\ pc[p] = "ev_backend"
    /\ \E b \in BackendOutcomes :
        LET l == [loc[p] EXCEPT !.backend_failed = b.raised]
            r == _call_backend(b)
            passed == Gate(r.value, l.stats_before.rolling_threshold)
            scored == [l EXCEPT !.score = r.value, !.passed = passed]
            calling == [scored EXCEPT !.ro_score = scored.score,
                                      !.ro_passed = scored.passed]
        IN  IF r.raised
            THEN Local(p, Raise(l, "BackendError"))
            ELSE IF UpdateStats(l.update_stats)
                 THEN Local(p, Goto("ro_get", calling, ret[p]))
                 ELSE Local(p, ReturnFromEvaluate(p, scored, scored.stats_before))
    /\ UNCHANGED <<cfg, table, op, done, budget>>

\* ----------------------------------------------------------- specification
Next ==
    \E p \in Tasks :
        \/ CallEnsureMetric(p)
        \/ CallRecordOutcome(p)
        \/ CallEvaluate(p)
        \/ CallBatchEvaluate(p)
        \/ CallBatchEvaluateEmpty(p)
        \/ EnsureMetricGet(p)
        \/ EnsureMetricCommit(p)
        \/ RecordOutcomeGet(p)
        \/ RecordOutcomeCommit(p)
        \/ EvaluateScore(p)

Spec == Init /\ [][Next]_vars

\* ------------------------------------------- one caller of record_outcome
\* The repository used by a single caller that reports outcomes one after
\* the other, with any of these scores.
ReportedScores == Scores \cup {Rat(8, 10)}

ReportOutcome(p) ==
    /\ pc[p] = "idle"
    /\ \E m \in Metrics, s \in ReportedScores, b \in BOOLEAN :
           Start(p, "record_outcome", "ro_get",
                 [NoLocals EXCEPT !.metric = m, !.ro_score = s, !.ro_passed = b],
                 1)

NextRecord ==
    \/ ReportOutcome("t1")
    \/ RecordOutcomeGet("t1")
    \/ RecordOutcomeCommit("t1")

SpecRecord == Init /\ [][NextRecord]_vars


\* ------------------------------------------------------------- properties
RowsOf(m) == {r \in table : r.metric = m}

InBounds(t) == RLeq(cfg.min_threshold, t) /\ RLeq(t, cfg.max_threshold)

\* C1: concurrent record_outcome calls on one metric lose no update: the
\* persisted sample_count is the number of completed calls, and success_count
\* and failure_count are the numbers of calls made with passed and not passed.
C1_NoLostUpdate ==
    \A m \in Metrics :
        /\ EffStats(m).sample_count = done[m].passed + done[m].failed
        /\ EffStats(m).success_count = done[m].passed
        /\ EffStats(m).failure_count = done[m].failed

\* C2: concurrent ensure_metric calls for a metric without a record all
\* return the seeded stats without an error, and one record is persisted.
C2_ConcurrentFirstAccess ==
    /\ \A p \in Tasks :
        (op[p] = "ensure_metric" /\ pc[p] = "idle") =>
            /\ ret[p].kind = "stats"
            /\ ret[p].value.metric = loc[p].metric
            /\ Cardinality(RowsOf(loc[p].metric)) = 1
    /\ \A m \in Metrics : Cardinality(RowsOf(m)) <= 1

\* C3: rolling_threshold lies within [min_threshold, max_threshold] in every
\* persisted row, in the seed of a metric without a row, and in the stats
\* that ensure_metric and record_outcome compute and return.
C3_ThresholdWithinBounds ==
    /\ \A r \in table : InBounds(r.rolling_threshold)
    /\ \A m \in Metrics : InBounds(EffStats(m).rolling_threshold)
    /\ \A p \in Tasks :
        /\ ret[p].kind = "stats" => InBounds(ret[p].value.rolling_threshold)
        /\ loc[p].stats_before # NoRow =>
               InBounds(loc[p].stats_before.rolling_threshold)
        /\ loc[p].updated # NoRow => InBounds(loc[p].updated.rolling_threshold)

\* both clamps have acted: a default above max_threshold was seeded at
\* max_threshold, and an update whose base threshold is below min_threshold
\* (score 0, no success) was persisted at min_threshold
C3_Witness ==
    /\ \E c \in RawConfigs :
        /\ ValidConfig(c) /\ cfg = NewRepository(c)
        /\ RLt(c.max_threshold, c.default_threshold)
    /\ \E r \in table :
        /\ r.sample_count > 0 /\ r.success_count = 0
        /\ r.rolling_score = Zero
        /\ r.rolling_threshold = cfg.min_threshold

\* C4: every persisted ConfidenceStats has non-negative counts with
\* sample_count = success_count + failure_count (each record_outcome adding
\* one to exactly one of success_count and failure_count).
C4_CountsConsistent ==
    \A r \in table :
        /\ r.sample_count >= 0 /\ r.success_count >= 0 /\ r.failure_count >= 0
        /\ r.sample_count = r.success_count + r.failure_count


\* Task p is an evaluator whose last evaluation has returned and whose next
\* one has not yet read the metric: its locals are those of that evaluation.
JustEvaluated(p) ==
    \/ op[p] = "evaluate" /\ pc[p] = "idle" /\ ret[p].kind = "result"
    \/ /\ op[p] = "batch_evaluate" /\ Len(loc[p].results) > 0
       /\ \/ pc[p] = "em_get"
          \/ pc[p] = "idle" /\ ret[p].kind = "results"

LastResult(p) ==
    IF op[p] = "evaluate" THEN ret[p].value
    ELSE loc[p].results[Len(loc[p].results)]

Evaluating(p) == op[p] \in {"evaluate", "batch_evaluate"}

\* C5: applied_threshold is the metric's rolling_threshold as persisted when
\* evaluate read it, before its own update, and updated_threshold the one
\* its record_outcome computed; when no other task wrote in between, they
\* are the pre-update and the post-update threshold of that record_outcome.
C5_AppliedIsPreUpdate ==
    \A p \in Tasks :
        JustEvaluated(p) =>
            LET l == loc[p]
                res == LastResult(p)
            IN  /\ res.applied_threshold = l.seen.rolling_threshold
                /\ l.update_stats =>
                    /\ res.updated_threshold = l.updated.rolling_threshold
                    /\ ~l.ev_foreign =>
                        /\ res.applied_threshold = l.read.rolling_threshold
                        /\ res.updated_threshold =
                               EffStats(l.metric).rolling_threshold

C5_Witness ==
    \E p \in Tasks :
        /\ JustEvaluated(p) /\ loc[p].update_stats /\ ~loc[p].ev_foreign
        /\ loc[p].recorded = 1
        /\ LastResult(p).applied_threshold # LastResult(p).updated_threshold

\* C6: batch_evaluate returns one result per candidate in input order, and
\* with update_stats and no other writer each evaluation is gated on the
\* threshold the previous one left.
C6_BatchSequential ==
    \A p \in Tasks :
        op[p] = "batch_evaluate" =>
            LET l == loc[p]
                results == IF ret[p].kind = "results" THEN ret[p].value
                           ELSE l.results
            IN  /\ ret[p].kind = "results" => Len(results) = l.candidates
                /\ \A i \in 1..Len(results) : results[i].candidate = i
                /\ (l.update_stats /\ ~l.call_foreign) =>
                       \A i \in 1..(Len(results) - 1) :
                           results[i + 1].applied_threshold =
                               results[i].updated_threshold

C6_Witness ==
    \E p \in Tasks :
        /\ op[p] = "batch_evaluate" /\ ret[p].kind = "results"
        /\ loc[p].update_stats /\ ~loc[p].call_foreign
        /\ Len(ret[p].value) >= 2
        /\ ret[p].value[1].updated_threshold # ret[p].value[1].applied_threshold

\* C7: passed is true exactly when score >= applied_threshold, and
\* record_outcome is called with that score and that flag.
C7_PassedIffScoreAtLeastThreshold ==
    \A p \in Tasks :
        /\ JustEvaluated(p) =>
            LET res == LastResult(p)
            IN  /\ res.passed = RGeq(res.score, res.applied_threshold)
                /\ loc[p].update_stats =>
                       /\ loc[p].ro_passed = res.passed
                       /\ loc[p].ro_score = res.score
        /\ (Evaluating(p) /\ pc[p] \in {"ro_get", "ro_commit"}) =>
            /\ loc[p].ro_passed = loc[p].passed
            /\ loc[p].passed =
                   RGeq(loc[p].score, loc[p].seen.rolling_threshold)

\* a score equal to the threshold passed and was recorded as a success
C7_Witness ==
    \E p \in Tasks :
        /\ JustEvaluated(p) /\ loc[p].update_stats /\ loc[p].recorded = 1
        /\ LastResult(p).score = LastResult(p).applied_threshold
        /\ LastResult(p).passed
        /\ loc[p].updated.success_count = loc[p].read.success_count + 1

\* C8: evaluate with update_stats false never enters record_outcome, returns
\* updated_threshold = applied_threshold, and leaves the metric's stats as it
\* read them (unless another task wrote meanwhile).
C8_NoUpdateLeavesStats ==
    \A p \in Tasks :
        (Evaluating(p) /\ ~loc[p].update_stats) =>
            /\ pc[p] \notin {"ro_get", "ro_commit"}
            /\ loc[p].recorded = 0
            /\ JustEvaluated(p) =>
                /\ LastResult(p).updated_threshold =
                       LastResult(p).applied_threshold
                /\ ~loc[p].ev_foreign =>
                       EffStats(loc[p].metric) = loc[p].seen

C8_Witness ==
    \E p \in Tasks :
        /\ JustEvaluated(p) /\ ~loc[p].update_stats /\ ~loc[p].ev_foreign
        /\ EffStats(loc[p].metric).sample_count > 0

\* C9: when the scoring backend raises, evaluate raises, returns no result
\* and records no outcome: the metric's stats stay as the evaluation read
\* them (unless another task wrote meanwhile).
C9_BackendFailurePropagates ==
    \A p \in Tasks :
        loc[p].backend_failed =>
            /\ pc[p] = "idle"
            /\ ret[p].kind = "BackendError"
            /\ loc[p].recorded = 0
            /\ ~loc[p].ev_foreign =>
                   EffStats(loc[p].metric) = loc[p].seen

C9_Witness ==
    \E p \in Tasks :
        /\ loc[p].backend_failed /\ ret[p].kind = "BackendError"
        /\ ~loc[p].ev_foreign
        /\ EffStats(loc[p].metric).sample_count > 0

\* The stats that p's record_outcome read and computed are its locals.
InRecordOutcome(p) == pc[p] = "ro_commit" \/ loc[p].recorded = 1

Smoothed(S, score) ==
    RAdd(S.rolling_score,
         RMul(cfg.smoothing_factor, RSub(score, S.rolling_score)))

\* C10: a record_outcome that reads sample_count = 0 (no row, or the seeded
\* row) sets rolling_score to its score; any other sets it to
\* S.rolling_score + alpha * (score - S.rolling_score).
C10_FirstSampleIsScore ==
    \A p \in Tasks :
        InRecordOutcome(p) =>
            LET l == loc[p]
            IN  /\ l.updated.rolling_score =
                       IF l.read.sample_count = 0 THEN l.ro_score
                       ELSE Smoothed(l.read, l.ro_score)
                /\ (l.recorded = 1 /\ ~l.ro_foreign) =>
                       Get(l.metric).rolling_score = l.updated.rolling_score

\* one call was the first sample on a seeded row with a score other than the
\* seed, another a later sample with a score other than the rolling score
C10_Witness ==
    \E p, q \in Tasks :
        /\ loc[p].recorded = 1 /\ loc[q].recorded = 1
        /\ loc[p].read.sample_count = 0 /\ loc[p].loaded # NoRow
        /\ loc[p].ro_score # loc[p].read.rolling_score
        /\ loc[q].read.sample_count > 0
        /\ loc[q].ro_score # loc[q].read.rolling_score
        /\ ~loc[q].ro_foreign

\* The threshold the update rule prescribes for stats U: the rolling score
\* plus a fifth of the success rate's distance from one half, clamped.
ThresholdOf(U) ==
    LET success_rate == Rat(U.success_count, U.sample_count)
    IN  RMax(cfg.min_threshold,
             RMin(cfg.max_threshold,
                  RAdd(U.rolling_score,
                       RMul(RSub(success_rate, Rat(1, 2)), Rat(2, 10)))))

\* C11: the stats every record_outcome computes, returns and writes have
\* rolling_threshold = clamp(rolling_score + (success_rate - 0.5) * 0.2,
\* min_threshold, max_threshold), success_rate being success_count /
\* sample_count of the updated counts; when no other call wrote in between,
\* that is the threshold the row then holds.
C11_ThresholdFromUpdatedRate ==
    \A p \in Tasks :
        InRecordOutcome(p) =>
            LET l == loc[p]
            IN  /\ l.updated.sample_count > 0
                /\ l.updated.rolling_threshold = ThresholdOf(l.updated)
                /\ (l.recorded = 1 /\ ~l.ro_foreign) =>
                       Get(l.metric).rolling_threshold = ThresholdOf(l.updated)

\* the scenario: default 0.6, min 0.2, max 0.95, smoothing 0.3; one
\* record_outcome(score = 0.8, passed = true) on the seeded metric
C11_Witness ==
    \E p \in Tasks :
        /\ cfg = NewRepository(RawConfig(Rat(6, 10), Rat(3, 10), Rat(2, 10),
                                         Rat(95, 100)))
        /\ loc[p].recorded = 1 /\ pc[p] = "idle"
        /\ loc[p].read = with_default(loc[p].metric, Rat(6, 10))
        /\ loc[p].ro_score = Rat(8, 10) /\ loc[p].ro_passed
        /\ ret[p].kind = "stats"
        /\ ret[p].value =
               Stats(loc[p].metric, 1, 1, 0, Rat(8, 10), Rat(9, 10))
        /\ Get(loc[p].metric) = ret[p].value

\* C27: when an evaluation's record_outcome writes, the passed flag it was
\* given is score >= the rolling_threshold stored for the metric just before
\* that write, however the evaluations interleave.
C27_GatedAgainstStoredThreshold ==
    [][\A p \in Tasks :
          (/\ \A q \in Tasks : op[q] \in {"evaluate", "batch_evaluate"}
           /\ pc[p] = "ro_commit"
           /\ pc'[p] # "ro_commit"
           /\ table' # table)
              => loc[p].ro_passed
                     = Gate(loc[p].ro_score,
                            EffStats(loc[p].metric).rolling_threshold)]_vars

\* ======================================================================
\* Reciprocal rank fusion (app/retrieval/rrf.py).
\*
\* A metadata value is a Python str or a list; a list holds strs and lists
\* of strs.  Both are records of one shape so that they can be compared:
\* an element  [list, atoms]  and a value  [list, items].  A metadata
\* mapping is a function from its keys to values (the order of the keys of
\* a dict plays no part in the fusion).
\* ======================================================================
MaxDocs == 3        \* documents over all result lists of one call
MaxLists == 2       \* result lists of one call
MaxLimit == 2       \* largest limit asked for
DefaultK == 60

DocIds == {"d1", "d2", "d3"}

StrItem(s) == [list |-> FALSE, atoms |-> <<s>>]
PyStr(s) == [list |-> FALSE, items |-> <<StrItem(s)>>]
PyList(strs) ==
    [list |-> TRUE, items |-> [i \in 1..Len(strs) |-> StrItem(strs[i])]]

\* the value as it stands as an element of a list
AsItem(value) ==
    IF value.list
    THEN [list |-> TRUE,
          atoms |-> [i \in 1..Len(value.items) |-> value.items[i].atoms[1]]]
    ELSE value.items[1]

ScoredDocument(document_id, score, metadata) ==
    [document_id |-> document_id, score |-> score, metadata |-> metadata]

\* an optional argument: None, or a value
None == [given |-> FALSE, value |-> <<>>]
NoLimit == [given |-> FALSE, value |-> 0]
Some(v) == [given |-> TRUE, value |-> v]

\* ------------------------------------------------------ _merge_metadata
\* merged[key] is held with the input document whose list object it is
\* (merged[key] = value binds the very list of that document), if any.
NoOwner == <<0, 0>>

ContainsNever(existing, value) == FALSE

\* value in existing
Contains(existing, value) ==
    \E i \in 1..Len(existing.items) : existing.items[i] = AsItem(value)

MergeValue(entry, value) ==
    LET existing == entry.value
    IN  IF existing.list
        THEN IF ~Contains(existing, value)
             THEN [entry EXCEPT !.value.items = Append(@, AsItem(value))]
             ELSE entry
        ELSE IF existing # value
             THEN [value |-> [list |-> TRUE,
                              items |-> <<AsItem(existing), AsItem(value)>>],
                   owner |-> NoOwner]
             ELSE entry

\* one turn of the loop over the documents: the document at pos
MergeDocument(state, pos) ==
    LET merged == state.merged
        metadata == state.sets[pos[1]][pos[2]].metadata
        after == [key \in DOMAIN merged \cup DOMAIN metadata |->
                     IF key \notin DOMAIN metadata THEN merged[key]
                     ELSE IF key \notin DOMAIN merged
                     THEN [value |-> metadata[key],
                           owner |-> IF metadata[key].list
                                     THEN pos ELSE NoOwner]
                     ELSE MergeValue(merged[key], metadata[key])]
        \* an append to a list that an input document holds shows there
        sets == [i \in 1..Len(state.sets) |->
                    [r \in 1..Len(state.sets[i]) |->
                        [state.sets[i][r] EXCEPT !.metadata =
                            [key \in DOMAIN @ |->
                                IF key \in DOMAIN after
                                       /\ after[key].owner = <<i, r>>
                                THEN after[key].value
                                ELSE @[key]]]]]
    IN  [merged |-> after, sets |-> sets]

RECURSIVE _merge_metadata(_, _)
\* documents: the contributions, as positions <<list, rank>> in sets
_merge_metadata(sets, documents) ==
    IF documents = <<>>
    THEN [merged |-> [key \in {} |-> None], sets |-> sets]
    ELSE MergeDocument(
             _merge_metadata(sets, SubSeq(documents, 1, Len(documents) - 1)),
             documents[Len(documents)])

\* ------------------------------------------------ reciprocal_rank_fusion
RECURSIVE PositionsFrom(_, _)
\* the documents in the order the two loops visit them
PositionsFrom(sets, list_index) ==
    IF list_index > Len(sets) THEN <<>>
    ELSE [rank \in 1..Len(sets[list_index]) |-> <<list_index, rank>>]
             \o PositionsFrom(sets, list_index + 1)

DocumentAt(sets, pos) == sets[pos[1]][pos[2]]

KeysRepeated(ids) == ids

RECURSIVE Keys(_)
\* the keys of a dict filled in this order: each once, first seen first
Keys(ids) ==
    IF ids = <<>> THEN <<>>
    ELSE LET before == Keys(SubSeq(ids, 1, Len(ids) - 1))
             last == ids[Len(ids)]
         IN  IF \E i \in 1..Len(before) : before[i] = last
             THEN before ELSE Append(before, last)

WeightOmitted(weights, list_index) == Rat(1, 1)

WeightOf(weights, list_index) ==
    IF weights.given THEN weights.value[list_index] ELSE Rat(1, 1)

rr_score_rank_from_zero(weight, k, rank) == RMul(weight, Rat(1, k + rank - 1))

rr_score(weight, k, rank) == RMul(weight, Rat(1, k + rank))

RECURSIVE SumScores(_, _, _)
\* fused_scores[document_id] once every position of the document is added
SumScores(positions, k, weights) ==
    IF positions = <<>> THEN Zero
    ELSE LET pos == positions[Len(positions)]
         IN  RAdd(SumScores(SubSeq(positions, 1, Len(positions) - 1),
                            k, weights),
                  rr_score(WeightOf(weights, pos[1]), k, pos[2]))

FusedDocument(document_id, score, metadata, contributions) ==
    [document_id |-> document_id, score |-> score, metadata |-> metadata,
     contributions |-> contributions]

RECURSIVE Collect(_, _, _, _, _)
\* the loop over fused_scores.items(): the fused documents so far, and the
\* result sets as the metadata merges have left them
Collect(sets, ids, positions, k, weights) ==
    IF ids = <<>> THEN [documents |-> <<>>, sets |-> sets]
    ELSE LET before == Collect(sets, SubSeq(ids, 1, Len(ids) - 1), positions,
                               k, weights)
             document_id == ids[Len(ids)]
             contributions ==
                 SelectSeq(positions,
                           LAMBDA pos :
                               DocumentAt(sets, pos).document_id = document_id)
             m == _merge_metadata(before.sets, contributions)
         IN  [documents |->
                  Append(before.documents,
                         FusedDocument(
                             document_id,
                             SumScores(contributions, k, weights),
                             [key \in DOMAIN m.merged |-> m.merged[key].value],
                             contributions)),
              sets |-> m.sets]

SortSkipped(documents) == documents

RECURSIVE SortByScoreDescending(_)
\* list.sort(key = score, reverse = True): stable, equal scores keep their
\* order
SortByScoreDescending(documents) ==
    IF Len(documents) <= 1 THEN documents
    ELSE LET before == SortByScoreDescending(
                           SubSeq(documents, 1, Len(documents) - 1))
             x == documents[Len(documents)]
             n == Cardinality({i \in 1..Len(before) :
                                  RGeq(before[i].score, x.score)})
         IN  SubSeq(before, 1, n) \o <<x>> \o SubSeq(before, n + 1, Len(before))

SliceOneMore(documents, limit) ==
    SubSeq(documents, 1, IF limit + 1 < Len(documents)
                         THEN limit + 1 ELSE Len(documents))

\* documents[:limit]
Slice(documents, limit) ==
    IF limit >= 0
    THEN SubSeq(documents, 1,
                IF limit < Len(documents) THEN limit ELSE Len(documents))
    ELSE SubSeq(documents, 1,
                IF Len(documents) + limit > 0
                THEN Len(documents) + limit ELSE 0)

WeightsAccepted(sets, weights) == FALSE

\* weights is not None and len(weights) != len(result_sets)
WeightsMismatch(sets, weights) ==
    weights.given /\ Len(weights.value) # Len(sets)

\* what the call does: raised, the list returned, and the result sets as
\* the call leaves them
reciprocal_rank_fusion(sets, k, limit, weights) ==
    IF Len(sets) = 0
    THEN [raised |-> FALSE, value |-> <<>>, sets |-> sets]
    ELSE IF WeightsMismatch(sets, weights)
    THEN [raised |-> TRUE, value |-> <<>>, sets |-> sets]
    ELSE LET positions == PositionsFrom(sets, 1)
             ids == Keys([i \in 1..Len(positions) |->
                             DocumentAt(sets, positions[i]).document_id])
             c == Collect(sets, ids, positions, k, weights)
             sorted == SortByScoreDescending(c.documents)
         IN  [raised |-> FALSE,
              value |-> IF limit.given THEN Slice(sorted, limit.value)
                        ELSE sorted,
              sets |-> c.sets]

\* ------------------------------------------------ the calls that are made
\* Every way of cutting a sequence into `lists` consecutive lists.
Cuts(n, lists) ==
    {c \in [1..(lists - 1) -> 0..n] :
        \A j \in 1..(lists - 2) : c[j] <= c[j + 1]}

SplitAt(flat, c) ==
    [i \in 1..(Len(c) + 1) |->
        SubSeq(flat, (IF i = 1 THEN 0 ELSE c[i - 1]) + 1,
               IF i = Len(c) + 1 THEN Len(flat) ELSE c[i])]

Splits(flats, most) ==
    {<<>>} \cup UNION {{SplitAt(f, c) : c \in Cuts(Len(f), lists)} :
                          f \in flats, lists \in 1..most}

UpTo(n, S) == UNION {[1..len -> S] : len \in 0..n}

RetrieverNames == <<"dense", "sparse", "keyword">>

\* Result lists as the pipeline builds them: every document of a list
\* carries the name of the retriever that returned the list.
RankedSets ==
    {[i \in 1..Len(s) |->
         [r \in 1..Len(s[i]) |->
             ScoredDocument(s[i][r], Rat(1, r),
                            [key \in {"retriever"} |->
                                PyStr(RetrieverNames[((i - 1) % 3) + 1])])]] :
        s \in Splits(UpTo(MaxDocs, DocIds), MaxLists)}

\* Result lists of one document whose payload differs from hit to hit: no
\* "source", a str, or a list of strs.
Payloads ==
    {[key \in {} |-> None]}
        \cup {[key \in {"source"} |-> v] :
                 v \in {PyStr("a"), PyStr("b"), PyStr("c"), PyList(<<"a">>)}}

\* the first hit alone in the first list, the others in a second list
PayloadSets ==
    {IF Len(p) = 0 THEN <<>>
     ELSE LET hits == [r \in 1..Len(p) |->
                          ScoredDocument("d1", Rat(1, r), p[r])]
          IN  IF Len(p) = 1 THEN <<hits>>
              ELSE <<SubSeq(hits, 1, 1), SubSeq(hits, 2, Len(p))>> :
        p \in UpTo(MaxDocs, Payloads)}

\* a list switched off and a list counted twice; 1.0 is the omitted weight
WeightValues == {Zero, Rat(2, 1)}

\* weights: omitted, one per list, or of another length
WeightChoices(lists) ==
    {None} \cup {Some(w) : w \in [1..lists -> WeightValues]}
           \cup {Some([i \in 1..n |-> One]) : n \in (0..MaxLists) \ {lists}}

Limits == {NoLimit} \cup {Some(n) : n \in 0..MaxLimit}

FusionCall(sets, k, limit, weights) ==
    [k |-> k, limit |-> limit, weights |-> weights,
     \* history: the result sets as they were handed over
     given |-> sets]

\* The evaluator side stands still while a fusion is made.
ConfidenceIdle ==
    /\ cfg = NewRepository(RawConfig(Rat(6, 10), Rat(3, 10), Rat(2, 10),
                                     Rat(95, 100)))
    /\ table = {}
    /\ pc = [p \in Tasks |-> "idle"]
    /\ op = [p \in Tasks |-> "none"]
    /\ loc = [p \in Tasks |-> NoLocals]
    /\ ret = [p \in Tasks |-> NoReturn]
    /\ done = [m \in Metrics |-> [passed |-> 0, failed |-> 0]]
    /\ budget = 0

InitRRF ==
    /\ ConfidenceIdle
    /\ ExpanderIdle
    /\ PipelineIdle
    /\ TicketsIdle
    /\ fused = NotFused
    /\ \/ \E s \in RankedSets :
              \E w \in WeightChoices(Len(s)) :
                  /\ result_sets = s
                  /\ rrf_call = FusionCall(s, DefaultK, NoLimit, w)
       \/ \E s \in RankedSets, l \in Limits :
              /\ result_sets = s
              /\ rrf_call = FusionCall(s, DefaultK, l, None)
       \/ \E s \in PayloadSets :
              /\ result_sets = s
              /\ rrf_call = FusionCall(s, DefaultK, NoLimit, None)

Fusion ==
    reciprocal_rank_fusion(result_sets, rrf_call.k, rrf_call.limit,
                           rrf_call.weights)

\* the call returns: fused is the list, the result sets are as it left them
Returns(f) ==
    /\ fused' = [kind |-> "list", value |-> f.value]
    /\ result_sets' = f.sets
    /\ UNCHANGED <<rrf_call, confidenceVars, expanderVars, pipelineVars,
                   ticketVars>>

\* if not result_sets: return []
FuseNothing ==
    /\ fused = NotFused
    /\ Len(result_sets) = 0
    /\ \E f \in {Fusion} : Returns(f)

\* raise ValueError("weights length must match the number of result sets")
FuseRaises ==
    /\ fused = NotFused
    /\ Len(result_sets) > 0
    /\ \E f \in {Fusion} :
          /\ f.raised
          /\ fused' = [kind |-> "ValueError", value |-> <<>>]
          /\ result_sets' = f.sets
    /\ UNCHANGED <<rrf_call, confidenceVars, expanderVars, pipelineVars,
                   ticketVars>>

\* the scores are summed, the metadata merged, the documents sorted and cut
Fuse ==
    /\ fused = NotFused
    /\ Len(result_sets) > 0
    /\ \E f \in {Fusion} : ~f.raised /\ Returns(f)

NextRRF == FuseNothing \/ FuseRaises \/ Fuse

SpecRRF == InitRRF /\ [][NextRRF]_vars


\* ======================================================================
\* Query expansion (apps/api/retrieval/query_expansion.py).
\* A str is the sequence of its characters.
\* ======================================================================
MaxSuggestions == 2     \* suggestions of all strategies together
MaxStrategies == 2      \* strategies of the expander
MaxExpansions == 2      \* largest max_expansions configured

RECURSIVE Collapse(_)
\* text with leading whitespace dropped and every run of it made one space
Collapse(text) ==
    IF text = <<>> THEN <<>>
    ELSE LET before == Collapse(SubSeq(text, 1, Len(text) - 1))
             c == text[Len(text)]
         IN  IF c # " " THEN Append(before, c)
             ELSE IF before = <<>> \/ before[Len(before)] = " " THEN before
             ELSE Append(before, " ")

\* " ".join(text.split())
_normalize_query(text) ==
    LET c == Collapse(text)
    IN  IF c # <<>> /\ c[Len(c)] = " " THEN SubSeq(c, 1, Len(c) - 1) ELSE c

SkippedOnlyBlank(normalized, seen) == normalized = <<>>

\* if not normalized or normalized in seen: continue
Skipped(normalized, seen) == normalized = <<>> \/ normalized \in seen

RECURSIVE TakeSuggestions(_, _, _)
\* the loop over one strategy's suggestions; returned: the cap was reached
TakeSuggestions(st, suggestions, max_expansions) ==
    IF suggestions = <<>> \/ st.returned THEN st
    ELSE LET normalized == _normalize_query(Head(suggestions))
         IN  IF Skipped(normalized, st.seen)
             THEN TakeSuggestions(st, Tail(suggestions), max_expansions)
             ELSE LET expansions == Append(st.expansions, normalized)
                  IN  TakeSuggestions(
                          [seen |-> st.seen \cup {normalized},
                           expansions |-> expansions,
                           returned |-> Len(expansions) >= max_expansions],
                          Tail(suggestions), max_expansions)

\* the queries asked: " a" and a blank one
Queries == {<<" ", "a">>, <<" ">>}

\* what strategies suggest: the query itself, "b", "b " and "b  c", a blank
Texts == {<<"a">>, <<"b">>, <<"b", " ">>, <<"b", " ", " ", "c">>, <<" ">>}

QueryExpander(strategies, max_expansions, include_original) ==
    [strategies |-> strategies, max_expansions |-> max_expansions,
     include_original |-> include_original]

\* The call as it is made: nothing computed yet.
ExpandCalled(query) ==
    [at |-> "called", query |-> query, normalized_query |-> <<>>,
     seen |-> {}, expansions |-> <<>>, strategy |-> 0,
     \* history: the strategies invoked so far, by their index
     invoked |-> <<>>]

InitExpand ==
    /\ ConfidenceIdle
    /\ FusionIdle
    /\ PipelineIdle
    /\ TicketsIdle
    /\ expanded = NotExpanded
    /\ \E q \in Queries, m \in 0..MaxExpansions, i \in BOOLEAN :
          \E s \in Splits(UpTo(MaxSuggestions, Texts), MaxStrategies) :
              /\ expander = QueryExpander(s, m, i)
              /\ expand = ExpandCalled(q)

\* normalized_query = ...; seen = {normalized_query}; expansions = []
ExpandCall ==
    /\ expand.at = "called"
    /\ expand' = [expand EXCEPT
                     !.at = "strategies",
                     !.normalized_query = _normalize_query(expand.query),
                     !.seen = {_normalize_query(expand.query)},
                     !.strategy = 1]
    /\ UNCHANGED <<expander, expanded, confidenceVars, rrfVars, pipelineVars,
                   ticketVars>>

\* what the next strategy's suggestions make of seen and expansions
Taken ==
    TakeSuggestions([seen |-> expand.seen, expansions |-> expand.expansions,
                     returned |-> FALSE],
                    expander.strategies[expand.strategy],
                    expander.max_expansions)

AfterStrategy(st) ==
    [expand EXCEPT !.seen = st.seen, !.expansions = st.expansions,
                   !.invoked = Append(@, expand.strategy)]

\* a strategy is awaited and its suggestions taken without reaching the cap
ExpandStrategy ==
    /\ expand.at = "strategies"
    /\ expand.strategy <= Len(expander.strategies)
    /\ \E st \in {Taken} :
          /\ ~st.returned
          /\ expand' = [AfterStrategy(st) EXCEPT !.strategy = @ + 1]
    /\ UNCHANGED <<expander, expanded, confidenceVars, rrfVars, pipelineVars,
                   ticketVars>>

\* a strategy is awaited and the cap reached among its suggestions:
\* return expansions
ExpandReturnsAtCap ==
    /\ expand.at = "strategies"
    /\ expand.strategy <= Len(expander.strategies)
    /\ \E st \in {Taken} :
          /\ st.returned
          /\ expand' = [AfterStrategy(st) EXCEPT !.at = "done"]
          /\ expanded' = [kind |-> "list", value |-> st.expansions]
    /\ UNCHANGED <<expander, confidenceVars, rrfVars, pipelineVars,
                   ticketVars>>

\* after the last strategy: the original is put first if asked for
ExpandReturns ==
    /\ expand.at = "strategies"
    /\ expand.strategy > Len(expander.strategies)
    /\ LET expansions ==
               IF expander.include_original
                      /\ \A n \in 1..Len(expand.expansions) :
                             expand.expansions[n] # expand.normalized_query
               THEN <<expand.normalized_query>> \o expand.expansions
               ELSE expand.expansions
       IN  /\ expand' = [expand EXCEPT !.at = "done", !.expansions = expansions]
           /\ expanded' = [kind |-> "list", value |-> expansions]
    /\ UNCHANGED <<expander, confidenceVars, rrfVars, pipelineVars,
                   ticketVars>>

NextExpand ==
    ExpandCall \/ ExpandStrategy \/ ExpandReturnsAtCap \/ ExpandReturns

SpecExpand == InitExpand /\ [][NextExpand]_vars

\* ---------------------------------------------- properties of the expander
Expanded == expanded.kind = "list"

\* the original query stands first because include_original put it there
OriginalIncluded ==
    /\ expander.include_original
    /\ Len(expanded.value) > 0
    /\ expanded.value[1] = _normalize_query(expand.query)

\* C19: expand returns at most max_expansions entries, the original that
\* include_original puts first not counted, whatever max_expansions is
\* configured and whatever the strategies suggest.
C19_AtMostMaxExpansions ==
    Expanded =>
        Len(expanded.value) - (IF OriginalIncluded THEN 1 ELSE 0)
            <= expander.max_expansions

\* C20: with include_original set the returned list starts with the
\* normalized original query, whether or not the cap was reached.
C20_OriginalFirst ==
    (Expanded /\ expander.include_original) =>
        /\ Len(expanded.value) > 0
        /\ expanded.value[1] = _normalize_query(expand.query)

\* C22: expand invokes the strategies in declared order, and only while
\* fewer than max_expansions expansions are collected; it returns as soon
\* as max_expansions are collected, so never with more.
C22_StopsAtCap ==
    [][/\ expand'.invoked # expand.invoked
           => /\ expand'.invoked
                     = Append(expand.invoked, Len(expand.invoked) + 1)
              /\ Len(expand.expansions) < expander.max_expansions
       /\ Len(expand'.expansions)
              - (IF expanded'.kind = "list" /\ OriginalIncluded' THEN 1 ELSE 0)
           <= expander.max_expansions]_vars

\* the same from the first expansion on: the claim for max_expansions >= 1
C22_StopsAtPositiveCap ==
    [][expander.max_expansions >= 1 =>
          /\ expand'.invoked # expand.invoked
                => /\ expand'.invoked
                          = Append(expand.invoked, Len(expand.invoked) + 1)
                   /\ Len(expand.expansions) < expander.max_expansions
          /\ Len(expand'.expansions)
                 - (IF expanded'.kind = "list" /\ OriginalIncluded' THEN 1 ELSE 0)
              <= expander.max_expansions]_vars

\* C23: for a query that is blank after whitespace collapsing expand
\* invokes no strategy and returns no list (it raises instead).
C23_BlankQueryRejected ==
    _normalize_query(expand.query) = <<>> =>
        /\ expand.invoked = <<>>
        /\ ~Expanded

\* the expansions the loop collected: the returned list without the original
\* that include_original put first
Collected ==
    IF OriginalIncluded THEN Tail(expanded.value) ELSE expanded.value

RECURSIVE Flat(_)
Flat(lists) == IF lists = <<>> THEN <<>> ELSE Head(lists) \o Flat(Tail(lists))

\* the normalized suggestions of all strategies in the order they are made
Suggested ==
    LET flat == Flat(expander.strategies)
    IN  [n \in 1..Len(flat) |-> _normalize_query(flat[n])]

\* the places of `Suggested` where a text is new: not blank, not the
\* original and not suggested at an earlier place
FirstSeen ==
    {n \in 1..Len(Suggested) :
        /\ Suggested[n] # <<>>
        /\ Suggested[n] # _normalize_query(expand.query)
        /\ \A m \in 1..(n - 1) : Suggested[m] # Suggested[n]}

\* the strategies with the text put in once more, as suggestion number j
\* of strategy i
Resupplied(i, j, text) ==
    [expander.strategies EXCEPT
        ![i] = SubSeq(@, 1, j - 1) \o <<text>> \o SubSeq(@, j, Len(@))]

RECURSIVE AllTaken(_, _, _)
\* the loop over all strategies, from the state `st` on
AllTaken(st, strategies, max_expansions) ==
    IF strategies = <<>> \/ st.returned THEN st
    ELSE AllTaken(TakeSuggestions(st, Head(strategies), max_expansions),
                  Tail(strategies), max_expansions)

\* the list QueryExpander.expand returns, as a function of its inputs
expand_all(query_expander, query) ==
    LET normalized_query == _normalize_query(query)
        st == AllTaken([seen |-> {normalized_query}, expansions |-> <<>>,
                        returned |-> FALSE],
                       query_expander.strategies, query_expander.max_expansions)
    IN  IF st.returned THEN st.expansions
        ELSE IF query_expander.include_original
                    /\ \A n \in 1..Len(st.expansions) :
                           st.expansions[n] # normalized_query
        THEN <<normalized_query>> \o st.expansions
        ELSE st.expansions

\* the length of the list expand returns for the same query and these
\* strategies
LengthFor(strategies) ==
    Len(expand_all([expander EXCEPT !.strategies = strategies], expand.query))

\* C21: the expansions expand collected are the first-seen suggestions in
\* the order they were suggested -- each normalized, not blank, not the
\* normalized original, none twice -- and suggesting once more a text that
\* normalizes to the original or to a suggestion made before it does not
\* make the returned list longer.
C21_FirstSeenWithoutDuplicates ==
    Expanded =>
        /\ Len(Collected) <= Cardinality(FirstSeen)
        /\ \A n \in 1..Len(Collected) :
               \E p \in FirstSeen :
                   /\ Suggested[p] = Collected[n]
                   /\ Cardinality({q \in FirstSeen : q < p}) = n - 1
        /\ \A i \in 1..Len(expander.strategies) :
               \A j \in 1..(Len(expander.strategies[i]) + 1) :
                   \A text \in Texts :
                       (\/ _normalize_query(text) = _normalize_query(expand.query)
                        \/ \E h \in 1..i : \E g \in 1..Len(expander.strategies[h]) :
                               /\ (h < i \/ g < j)
                               /\ _normalize_query(expander.strategies[h][g])
                                      = _normalize_query(text))
                       => LengthFor(Resupplied(i, j, text)) <= Len(expanded.value)

\* "b " and "b" were suggested, and "b" was collected once
C21_Witness ==
    /\ Expanded
    /\ expander.strategies = << <<<<"b", " ">>>>, <<<<"b">>>> >>
    /\ expand.query = <<" ", "a">>
    /\ expander.max_expansions = 2
    /\ Collected = << <<"b">> >>

\* ----------------------------------------------- properties of the fusion
Given == rrf_call.given
FusedList == fused.kind = "list"

\* the places <<list, rank>> of the result sets handed over
GivenPositions ==
    UNION {{<<j, r>> : r \in 1..Len(Given[j])} : j \in 1..Len(Given)}

GivenIds == {Given[pos[1]][pos[2]].document_id : pos \in GivenPositions}

\* where document_id stands in them
PositionsOf(document_id) ==
    {pos \in GivenPositions :
        Given[pos[1]][pos[2]].document_id = document_id}

RECURSIVE RSum(_)
\* the sum of a function's values
RSum(f) ==
    IF DOMAIN f = {} THEN Zero
    ELSE LET x == CHOOSE x \in DOMAIN f : TRUE
         IN  RAdd(f[x], RSum([y \in DOMAIN f \ {x} |-> f[y]]))

ListWeight(weights, j) == IF weights.given THEN weights.value[j] ELSE One

\* sum over the lists, and the places of the document in each, of
\* weight / (k + rank)
SumOfReciprocalRanks(document_id, weights) ==
    RSum([pos \in PositionsOf(document_id) |->
             RMul(ListWeight(weights, pos[1]), Rat(1, rrf_call.k + pos[2]))])

\* C12: the fused score of every returned document is the sum, over the
\* lists in which it stands, of the list's weight (1.0 when weights are
\* omitted) over k + its 1-based rank there (once for every place it has in
\* the list); a list without the document adds nothing.
C12_ScoreIsSumOfReciprocalRanks ==
    FusedList =>
        \A i \in 1..Len(fused.value) :
            fused.value[i].score =
                SumOfReciprocalRanks(fused.value[i].document_id,
                                     rrf_call.weights)

\* a document of two lists weighing 2.0 each, beside one of a single list
C12_Witness ==
    /\ FusedList /\ rrf_call.weights.given /\ Len(Given) = 2
    /\ rrf_call.weights.value = <<Rat(2, 1), Rat(2, 1)>>
    /\ \E i, j \in 1..Len(fused.value) :
          /\ {pos[1] : pos \in PositionsOf(fused.value[i].document_id)} = {1, 2}
          /\ {pos[1] : pos \in PositionsOf(fused.value[j].document_id)} = {2}
          /\ fused.value[i].score = RAdd(Rat(2, 61), Rat(2, 62))
          /\ fused.value[j].score = Rat(2, 61)

\* C13: the returned list is in descending order of fused score: of two
\* neighbours the earlier has a score at least the later's.
C13_SortedByScoreDescending ==
    FusedList =>
        \A i \in 1..(Len(fused.value) - 1) :
            RGeq(fused.value[i].score, fused.value[i + 1].score)

\* a document first met after another, but with contributions from two
\* lists, is returned ahead of it with a strictly larger score
C13_Witness ==
    /\ FusedList /\ Len(fused.value) >= 2 /\ Len(Given) = 2
    /\ Len(Given[1]) >= 1
    /\ Given[1][1].document_id = fused.value[2].document_id
    /\ {pos[1] : pos \in PositionsOf(fused.value[1].document_id)} = {1, 2}
    /\ {pos[1] : pos \in PositionsOf(fused.value[2].document_id)} = {1}
    /\ RLt(fused.value[2].score, fused.value[1].score)

\* C14: no document_id stands twice in the returned list, whatever the
\* input, a document repeated across lists or within one list included.
C14_EachDocumentOnce ==
    FusedList =>
        \A i, j \in 1..Len(fused.value) :
            i # j => fused.value[i].document_id # fused.value[j].document_id

\* a document standing twice in one list and once more in another
C14_Witness ==
    /\ FusedList /\ Len(fused.value) = 1
    /\ \E pos, again, other \in PositionsOf(fused.value[1].document_id) :
          pos[1] = again[1] /\ pos[2] # again[2] /\ other[1] # pos[1]

\* what the same call returns when no limit is passed
FullFusedList ==
    reciprocal_rank_fusion(Given, rrf_call.k, NoLimit, rrf_call.weights).value

\* C15: with a limit the returned list has min(limit, number of distinct
\* document_ids handed over) entries, the first of the full sorted list;
\* without one every fused document is returned.
C15_LimitKeepsFirstEntries ==
    FusedList =>
        LET distinct == Cardinality(GivenIds)
            limit == rrf_call.limit
        IN  IF limit.given
            THEN /\ Len(fused.value) =
                        IF limit.value < distinct THEN limit.value ELSE distinct
                 /\ fused.value = SubSeq(FullFusedList, 1, Len(fused.value))
            ELSE /\ Len(fused.value) = distinct
                 /\ fused.value = FullFusedList

\* a limit of two cuts a fusion of three documents
C15_Witness ==
    /\ FusedList /\ rrf_call.limit = Some(2)
    /\ Cardinality(GivenIds) = 3
    /\ Len(fused.value) = 2

\* C16: weights of a length other than the number of result lists, zero
\* lists included, make the call raise the validation error and return
\* nothing.
C16_MismatchedWeightsRejected ==
    (fused # NotFused /\ rrf_call.weights.given
         /\ Len(rrf_call.weights.value) # Len(Given))
        => fused.kind = "ValueError"

\* the weights of the call, list by list
Weights ==
    [j \in 1..Len(Given) |-> ListWeight(rrf_call.weights, j)]

ScoreOf(document_id) ==
    fused.value[CHOOSE i \in 1..Len(fused.value) :
                    fused.value[i].document_id = document_id].score

InList(j, document_id) == \E pos \in PositionsOf(document_id) : pos[1] = j

\* Doubling the weight of list j raises the score of each of its documents
\* and leaves the score of the documents of the other lists alone.
DoublingRaises(j) ==
    LET again == reciprocal_rank_fusion(
                     Given, rrf_call.k, NoLimit,
                     Some([Weights EXCEPT ![j] = RMul(Rat(2, 1), @)])).value
    IN  \A i \in 1..Len(again) :
            LET d == again[i].document_id
            IN  IF InList(j, d)
                THEN RLt(ScoreOf(d), again[i].score)
                ELSE again[i].score = ScoreOf(d)

FusedInFull == FusedList /\ ~rrf_call.limit.given

\* C17 as stated: doubling the weight of any one list strictly raises the
\* fused score of every document of that list and leaves the score of the
\* documents found only in other lists as it was.
C17_DoublingAnyWeightRaises ==
    FusedInFull => \A j \in 1..Len(Given) : DoublingRaises(j)

\* C17, amended: the same for every list whose weight is positive.
C17_DoublingPositiveWeightRaises ==
    FusedInFull =>
        \A j \in 1..Len(Given) : RLt(Zero, Weights[j]) => DoublingRaises(j)

\* a list of positive weight with a document of its own, beside a document
\* found only in the other list
C17_Witness ==
    /\ FusedInFull /\ Len(Given) = 2 /\ Len(fused.value) = 2
    /\ rrf_call.weights = Some(<<Rat(2, 1), Rat(2, 1)>>)
    /\ \E d, e \in GivenIds :
          /\ InList(1, d) /\ ~InList(2, d)
          /\ InList(2, e) /\ ~InList(1, e)
          /\ DoublingRaises(1)

RECURSIVE Distinct(_)
\* the different values of a sequence, in the order they first occur
Distinct(values) ==
    IF values = <<>> THEN <<>>
    ELSE LET before == Distinct(SubSeq(values, 1, Len(values) - 1))
             last == values[Len(values)]
         IN  IF \E i \in 1..Len(before) : before[i] = last
             THEN before ELSE Append(before, last)

\* the values the contributions of d give to key, in processing order
ValuesOf(d, key) ==
    LET with == SelectSeq(d.contributions,
                          LAMBDA pos :
                              key \in DOMAIN DocumentAt(Given, pos).metadata)
    IN  [i \in 1..Len(with) |-> DocumentAt(Given, with[i]).metadata[key]]

\* The merge policy: one distinct value stays as it is; two or more make
\* the list of the distinct values in the order they were first seen.
MergePolicy(values) ==
    LET distinct == Distinct(values)
    IN  IF Len(distinct) = 1 THEN distinct[1]
        ELSE [list |-> TRUE,
              items |-> [i \in 1..Len(distinct) |-> AsItem(distinct[i])]]

MergedKeys(d) ==
    UNION {DOMAIN DocumentAt(Given, d.contributions[i]).metadata :
              i \in 1..Len(d.contributions)}

FollowsMergePolicy(d) ==
    /\ DOMAIN d.metadata = MergedKeys(d)
    /\ \A key \in DOMAIN d.metadata :
           d.metadata[key] = MergePolicy(ValuesOf(d, key))

\* C18: the metadata of every fused document is the merge of its
\* contributions in processing order: a key with one distinct value keeps
\* it, the second distinct value makes the list [first, second], every
\* further distinct value is appended once, equal values add nothing.
C18_MetadataFollowsMergePolicy ==
    FusedList => \A i \in 1..Len(fused.value) : FollowsMergePolicy(fused.value[i])

\* The same for the documents none of whose values is itself a list.
C18_StrValuesFollowMergePolicy ==
    FusedList =>
        \A i \in 1..Len(fused.value) :
            (\A key \in MergedKeys(fused.value[i]) :
                \A n \in 1..Len(ValuesOf(fused.value[i], key)) :
                    ~ValuesOf(fused.value[i], key)[n].list)
                => FollowsMergePolicy(fused.value[i])

\* C29: after the call every input document is as it was handed over:
\* document_id, score and metadata, list-valued metadata included.
C29_InputsUnchanged ==
    fused # NotFused => result_sets = Given

\* ======================================================================
\* RAG fusion pipeline (apps/api/retrieval/pipeline.py).  Its fusion is
\* reciprocal_rank_fusion above; its expander is expand_all above.
\* ======================================================================
MaxRetrievers == 2          \* retrievers of the pipeline
PerRetrieverLimit == 8

RetrievalResult(document_id, score, metadata) ==
    [document_id |-> document_id, score |-> score, metadata |-> metadata]

\* the queries handed to the pipeline: "a" and " a"
PipelineQueries == {<<"a">>, <<" ", "a">>}

\* A retriever answers a query with its hits, returns nothing for some
\* queries and raises for some.
Retriever(hits, empty_for, raises_for) ==
    [hits |-> hits, empty_for |-> empty_for, raises_for |-> raises_for]

RetrieverConfig(name, retriever, weight) ==
    [name |-> name, retriever |-> retriever, weight |-> weight]

\* What each retriever finds.  The hit of "sparse" comes with metadata of
\* its own under the keys the pipeline writes.
HitsOf(name) ==
    IF name = "dense"
    THEN <<RetrievalResult("d1", Rat(9, 10),
                           [key \in {"source"} |-> PyStr("a")]),
           RetrievalResult("d2", Rat(8, 10), [key \in {} |-> None])>>
    ELSE IF name = "sparse"
    THEN <<RetrievalResult("d2", Rat(7, 10),
                           [key \in {"retriever", "query_variant"} |->
                               IF key = "retriever" THEN PyStr("own")
                               ELSE PyStr(<<"o">>)])>>
    ELSE <<RetrievalResult("d1", Rat(6, 10), [key \in {} |-> None])>>

\* weight of the RetrieverConfig: the default for "dense"
ConfiguredWeight(name) ==
    IF name = "dense" THEN One
    ELSE IF name = "sparse" THEN Rat(2, 1) ELSE Rat(3, 1)

\* a retriever that always answers, one with nothing for "b", one with
\* nothing for the query itself, one that raises for "b"
Retrievers(name) ==
    {Retriever(HitsOf(name), {}, {}),
     Retriever(HitsOf(name), {<<"b">>}, {}),
     Retriever(HitsOf(name), PipelineQueries, {}),
     Retriever(HitsOf(name), {}, {<<"b">>})}

\* retriever.retrieve(query, top_k=...), awaited
Retrieve(retriever, query, top_k) ==
    IF query \in retriever.raises_for
    THEN [raised |-> TRUE, results |-> <<>>]
    ELSE IF query \in retriever.empty_for
    THEN [raised |-> FALSE, results |-> <<>>]
    ELSE [raised |-> FALSE,
          results |-> SubSeq(retriever.hits, 1,
                             IF top_k < Len(retriever.hits)
                             THEN top_k ELSE Len(retriever.hits))]

\* one strategy, which suggests "b" and "b  c", or "b" alone
PipelineExpanders ==
    {QueryExpander(<<s>>, m, i) :
        s \in {<< <<"b">>, <<"b", " ", " ", "c">> >>, << <<"b">> >>},
        m \in 1..MaxExpansions, i \in BOOLEAN}

RAGFusionPipeline(query_expander, retrievers, rrf_k, per_retriever_limit) ==
    [query_expander |-> query_expander, retrievers |-> retrievers,
     rrf_k |-> rrf_k, per_retriever_limit |-> per_retriever_limit]

NoQueryExpander == [given |-> FALSE, value |-> NoExpander]

\* The call as it is made: context = context or QueryContext()
RetrieveCalled(query, top_k, use_expansion) ==
    [at |-> "called", query |-> query, top_k |-> top_k,
     use_expansion |-> use_expansion, queries |-> <<>>,
     result_lists |-> <<>>, weights |-> <<>>, retriever |-> 1, variant |-> 1,
     \* history: was the expander awaited; the retriever calls made so far
     expander_invoked |-> FALSE, calls |-> <<>>]

InitPipeline ==
    /\ ConfidenceIdle
    /\ FusionIdle
    /\ ExpanderIdle
    /\ TicketsIdle
    /\ retrieved = NotRetrieved
    /\ \E n \in 1..MaxRetrievers :
          \E r \in [1..n -> UNION {Retrievers(RetrieverNames[j]) : j \in 1..n}] :
              /\ \A j \in 1..n : r[j] \in Retrievers(RetrieverNames[j])
              /\ \E e \in {NoQueryExpander} \cup {Some(x) : x \in PipelineExpanders} :
                    pipeline = RAGFusionPipeline(
                                   e,
                                   [j \in 1..n |->
                                       RetrieverConfig(
                                           RetrieverNames[j], r[j],
                                           ConfiguredWeight(RetrieverNames[j]))],
                                   DefaultK, PerRetrieverLimit)
    /\ \E q \in PipelineQueries, k \in 1..MaxLimit, u \in BOOLEAN :
          retrieve = RetrieveCalled(q, k, u)

UseExpansionAlways(use_expansion, query_expander) == query_expander.given

\* if use_expansion and self.query_expander is not None
UseExpansion(use_expansion, query_expander) ==
    use_expansion /\ query_expander.given

\* queries = [query]; expansions = await self.query_expander.expand(...);
\* queries.extend(expansions)
RetrieveExpands ==
    /\ retrieve.at = "called"
    /\ UseExpansion(retrieve.use_expansion, pipeline.query_expander)
    /\ retrieve' = [retrieve EXCEPT
                       !.at = "retrievers",
                       !.expander_invoked = TRUE,
                       !.queries = <<retrieve.query>>
                                       \o expand_all(pipeline.query_expander.value,
                                                     retrieve.query)]
    /\ UNCHANGED <<pipeline, retrieved, confidenceVars, rrfVars, expanderVars,
                   ticketVars>>

\* queries = [query], and no more
RetrieveOriginalOnly ==
    /\ retrieve.at = "called"
    /\ ~UseExpansion(retrieve.use_expansion, pipeline.query_expander)
    /\ retrieve' = [retrieve EXCEPT !.at = "retrievers",
                                    !.queries = <<retrieve.query>>]
    /\ UNCHANGED <<pipeline, retrieved, confidenceVars, rrfVars, expanderVars,
                   ticketVars>>

ScoredKeepsOwn(results, name, query_variant) ==
    [n \in 1..Len(results) |->
        ScoredDocument(
            results[n].document_id, results[n].score,
            [key \in DOMAIN results[n].metadata \cup {"retriever", "query_variant"} |->
                IF key \in DOMAIN results[n].metadata THEN results[n].metadata[key]
                ELSE IF key = "retriever" THEN PyStr(name)
                ELSE PyStr(query_variant)])]

\* scored = [ScoredDocument(..., metadata={**dict(item.metadata),
\* "retriever": ..., "query_variant": ...}) for item in results]
Scored(results, name, query_variant) ==
    [n \in 1..Len(results) |->
        ScoredDocument(
            results[n].document_id, results[n].score,
            [key \in DOMAIN results[n].metadata \cup {"retriever", "query_variant"} |->
                IF key = "retriever" THEN PyStr(name)
                ELSE IF key = "query_variant" THEN PyStr(query_variant)
                ELSE results[n].metadata[key]])]

AfterResultsWeightAlways(l, results, retriever_config, query_variant) ==
    [l EXCEPT
        !.result_lists =
            IF results = <<>> THEN @
            ELSE Append(@, Scored(results, retriever_config.name, query_variant)),
        !.weights = Append(@, retriever_config.weight)]

\* if not results: continue; result_lists.append(scored);
\* weights.append(retriever_config.weight)
AfterResults(l, results, retriever_config, query_variant) ==
    IF results = <<>> THEN l
    ELSE [l EXCEPT
             !.result_lists =
                 Append(@, Scored(results, retriever_config.name, query_variant)),
             !.weights = Append(@, retriever_config.weight)]

\* the loops go on: the next variant, or the first one of the next retriever
Advanced(l) ==
    IF l.variant < Len(l.queries)
    THEN [l EXCEPT !.variant = @ + 1]
    ELSE [l EXCEPT !.retriever = @ + 1, !.variant = 1]

Retrieving ==
    /\ retrieve.at = "retrievers"
    /\ retrieve.retriever <= Len(pipeline.retrievers)

\* the call the loops are at, and what it gives
RetrievalNow ==
    LET retriever_config == pipeline.retrievers[retrieve.retriever]
        query_variant == retrieve.queries[retrieve.variant]
        r == Retrieve(retriever_config.retriever, query_variant,
                      pipeline.per_retriever_limit)
    IN  [retriever_config |-> retriever_config, query_variant |-> query_variant,
         raised |-> r.raised, results |-> r.results,
         call |-> [retriever |-> retrieve.retriever,
                   query_variant |-> query_variant,
                   top_k |-> pipeline.per_retriever_limit,
                   raised |-> r.raised, results |-> r.results]]

\* results = await _maybe_await(retrieval), some or none
Retrieved(now) ==
    /\ ~now.raised
    /\ retrieve' = Advanced(AfterResults(
                       [retrieve EXCEPT !.calls = Append(@, now.call)],
                       now.results, now.retriever_config, now.query_variant))
    /\ UNCHANGED <<pipeline, retrieved, confidenceVars, rrfVars, expanderVars,
                   ticketVars>>

RetrieveHits ==
    /\ Retrieving
    /\ \E now \in {RetrievalNow} : now.results # <<>> /\ Retrieved(now)

RetrieveEmpty ==
    /\ Retrieving
    /\ \E now \in {RetrievalNow} : now.results = <<>> /\ Retrieved(now)

\* the retriever raises: nothing in retrieve catches it
RetrieverRaises ==
    /\ Retrieving
    /\ \E now \in {RetrievalNow} :
          /\ now.raised
          /\ retrieve' = [retrieve EXCEPT !.at = "done",
                                          !.calls = Append(@, now.call)]
          /\ retrieved' = [kind |-> "RetrieverError", value |-> <<>>]
    /\ UNCHANGED <<pipeline, confidenceVars, rrfVars, expanderVars, ticketVars>>

\* weights or None
WeightsOrNone(weights) == IF weights = <<>> THEN None ELSE Some(weights)

\* fused = reciprocal_rank_fusion(result_lists, k=self.rrf_k, limit=top_k,
\* weights=weights or None); return fused
RetrieveFuses ==
    /\ retrieve.at = "retrievers"
    /\ retrieve.retriever > Len(pipeline.retrievers)
    /\ \E f \in {reciprocal_rank_fusion(retrieve.result_lists, pipeline.rrf_k,
                                        Some(retrieve.top_k),
                                        WeightsOrNone(retrieve.weights))} :
          /\ retrieve' = [retrieve EXCEPT !.at = "done", !.result_lists = f.sets]
          /\ retrieved' = IF f.raised
                          THEN [kind |-> "ValueError", value |-> <<>>]
                          ELSE [kind |-> "list", value |-> f.value]
    /\ UNCHANGED <<pipeline, confidenceVars, rrfVars, expanderVars, ticketVars>>

NextPipeline ==
    \/ RetrieveExpands
    \/ RetrieveOriginalOnly
    \/ RetrieveHits
    \/ RetrieveEmpty
    \/ RetrieverRaises
    \/ RetrieveFuses

SpecPipeline == InitPipeline /\ [][NextPipeline]_vars


\* ---------------------------------------------- properties of the pipeline
\* the call has returned a fused list
Fused == retrieved.kind = "list"

\* the expander is to be used
Expanding == retrieve.use_expansion /\ pipeline.query_expander.given

\* the query variants the call is to issue
Variants ==
    IF Expanding
    THEN <<retrieve.query>>
             \o expand_all(pipeline.query_expander.value, retrieve.query)
    ELSE <<retrieve.query>>

\* C24: the retriever calls made are, in order, every retriever with the
\* original query and every expansion, each with top_k =
\* per_retriever_limit; a fused list is returned only once all of them
\* have returned; without use_expansion or without an expander the expander
\* is not invoked and only the original query is issued.
C24_AllVariantsBeforeFusion ==
    /\ \A n \in 1..Len(retrieve.calls) :
          /\ retrieve.calls[n].retriever = ((n - 1) \div Len(Variants)) + 1
          /\ retrieve.calls[n].query_variant
                 = Variants[((n - 1) % Len(Variants)) + 1]
          /\ retrieve.calls[n].top_k = pipeline.per_retriever_limit
    /\ Fused => Len(retrieve.calls) = Len(pipeline.retrievers) * Len(Variants)
    /\ retrieve.expander_invoked <=> (Expanding /\ retrieve.at # "called")
    /\ retrieve.at # "called" => retrieve.queries = Variants

\* two retrievers, the query and two expansions: six calls, then the fusion
C24_Witness ==
    /\ Fused
    /\ retrieve.expander_invoked
    /\ Len(pipeline.retrievers) = 2
    /\ Len(retrieve.queries) = 3
    /\ Len(retrieve.calls) = 6

\* the ScoredDocument that a contribution of a fused document is
Contribution(pos) == retrieve.result_lists[pos[1]][pos[2]]

\* the retriever calls that returned something: one per result list
Answered == SelectSeq(retrieve.calls, LAMBDA c : c.results # <<>>)

\* C25: every contribution of every fused document names, under
\* "retriever" and "query_variant", the retriever that returned it and the
\* variant it was asked, whatever the retriever had put under those keys.
C25_ContributionsNameTheirSource ==
    Fused =>
        \A n \in 1..Len(retrieved.value) :
            \A c \in 1..Len(retrieved.value[n].contributions) :
                LET pos == retrieved.value[n].contributions[c]
                    call == Answered[pos[1]]
                    metadata == Contribution(pos).metadata
                IN  /\ Contribution(pos).document_id
                           = call.results[pos[2]].document_id
                    /\ {"retriever", "query_variant"} \subseteq DOMAIN metadata
                    /\ metadata["retriever"]
                           = PyStr(pipeline.retrievers[call.retriever].name)
                    /\ metadata["query_variant"] = PyStr(call.query_variant)

\* a hit of "sparse", which has both keys in its own metadata, is a
\* contribution of the first fused document
C25_Witness ==
    /\ Fused
    /\ Len(retrieved.value) > 0
    /\ \E c \in 1..Len(retrieved.value[1].contributions) :
          LET pos == retrieved.value[1].contributions[c]
          IN  /\ pipeline.retrievers[Answered[pos[1]].retriever].name = "sparse"
              /\ "retriever" \in DOMAIN Answered[pos[1]].results[pos[2]].metadata
              /\ Answered[pos[1]].query_variant = <<"b">>

\* the configured weight of the retriever that returned result list j
OwnWeight(j) == pipeline.retrievers[Answered[j].retriever].weight

\* some retriever call has raised
RetrieverFailed ==
    \E n \in 1..Len(retrieve.calls) : retrieve.calls[n].raised

\* C26: a call that returns nothing adds no list and no weight, so every
\* list is fused with the configured weight of the retriever it came from
\* and the call still returns a fused list; a retriever that raises ends
\* the call with its error and no fused list.
C26_EmptySkippedErrorsPropagate ==
    /\ Len(retrieve.result_lists) = Len(Answered)
    /\ Len(retrieve.weights) = Len(Answered)
    /\ \A j \in 1..Len(Answered) : retrieve.weights[j] = OwnWeight(j)
    /\ Fused =>
          \A n \in 1..Len(retrieved.value) :
              retrieved.value[n].score
                  = RSum([pos \in {retrieved.value[n].contributions[c] :
                                      c \in 1..Len(retrieved.value[n].contributions)} |->
                             RMul(OwnWeight(pos[1]),
                                  Rat(1, pipeline.rrf_k + pos[2]))])
    /\ (retrieve.at = "done" /\ ~RetrieverFailed) => Fused
    /\ RetrieverFailed => retrieved.kind = "RetrieverError"

\* "dense" had nothing for the query, "sparse" had: its list is fused with
\* the weight of "sparse"
C26_Witness ==
    /\ Fused
    /\ Len(retrieve.calls) > 1
    /\ retrieve.calls[1].results = <<>>
    /\ Len(retrieved.value) > 0
    /\ retrieve.weights[1] = Rat(2, 1)
    /\ retrieved.value[1].score = Rat(2, 61)

\* a retriever raised after another had answered
C26_WitnessError ==
    /\ retrieved.kind = "RetrieverError"
    /\ Len(retrieve.result_lists) > 0

\* C28: no query string stands twice in the variant list, so no retriever
\* is called twice with the same query.
C28_NoVariantTwice ==
    /\ \A i, j \in 1..Len(retrieve.queries) :
          i # j => retrieve.queries[i] # retrieve.queries[j]
    /\ \A m, n \in 1..Len(retrieve.calls) :
          (/\ m # n
           /\ retrieve.calls[m].retriever = retrieve.calls[n].retriever)
              => retrieve.calls[m].query_variant # retrieve.calls[n].query_variant

\* the same while the expander does not put the original first
C28_NoVariantTwiceUnlessOriginalIncluded ==
    ~(Expanding /\ pipeline.query_expander.value.include_original)
        => C28_NoVariantTwice

\* ======================================================================
\* Ticket lifecycle (app/tickets/state.py, service.py, repository.py):
\* one ticket, whose status the callers change.
\* ======================================================================
MaxChanges == 3     \* change_status calls made in all

TicketStatus == {"new", "triaged", "in_progress", "resolved", "closed"}

_TRANSITIONS ==
    [current \in TicketStatus |->
        CASE current = "new" -> {"triaged", "in_progress", "closed"}
          [] current = "triaged" -> {"in_progress", "resolved", "closed"}
          [] current = "in_progress" -> {"resolved", "closed"}
          [] current = "resolved" -> {"closed", "in_progress"}
          [] current = "closed" -> {}]

initial_state == "new"

can_transition(current, new) ==
    current = new \/ new \in _TRANSITIONS[current]

\* create_ticket: the row with the initial status and its audit entry
InitTickets ==
    /\ ConfidenceIdle
    /\ RetrievalIdle
    /\ ticket = [status |-> initial_state]
    /\ audit_logs = <<[from_status |-> "none", to_status |-> initial_state]>>
    /\ change = [p \in Tasks |-> NoChange]
    /\ changes = 0

\* what a step of the tickets leaves alone
TicketFrame == UNCHANGED <<confidenceVars, retrievalVars>>

\* TicketService.change_status(ticket_id, new_status=...) is called
ChangeStatusCall(p) ==
    /\ change[p].at = "idle"
    /\ changes < MaxChanges
    /\ changes' = changes + 1
    /\ \E new_status \in TicketStatus :
          change' = [change EXCEPT ![p] =
                        [at |-> "get", new_status |-> new_status,
                         from_status |-> "none", raised |-> "none"]]
    /\ UNCHANGED <<ticket, audit_logs>>
    /\ TicketFrame

\* ticket = await self.repository.get_ticket(ticket_id); the transition is
\* not allowed: raise InvalidTicketTransitionError
ChangeStatusRejected(p) ==
    /\ change[p].at = "get"
    /\ ~can_transition(ticket.status, change[p].new_status)
    /\ change' = [change EXCEPT ![p].at = "idle",
                                ![p].from_status = ticket.status,
                                ![p].raised = "InvalidTicketTransitionError"]
    /\ UNCHANGED <<ticket, audit_logs, changes>>
    /\ TicketFrame

\* the ticket is read and the transition from its status is allowed
ChangeStatusChecked(p) ==
    /\ change[p].at = "get"
    /\ can_transition(ticket.status, change[p].new_status)
    /\ change' = [change EXCEPT ![p].at = "update",
                                ![p].from_status = ticket.status]
    /\ UNCHANGED <<ticket, audit_logs, changes>>
    /\ TicketFrame

\* row = await connection.fetchrow(_UPDATE_STATUS_SQL, ...):
\* UPDATE tickets SET status = $2 ... WHERE id = $1
ChangeStatusUpdate(p) ==
    /\ change[p].at = "update"
    /\ ticket' = [ticket EXCEPT !.status = change[p].new_status]
    /\ change' = [change EXCEPT ![p].at = "audit"]
    /\ UNCHANGED <<audit_logs, changes>>
    /\ TicketFrame

\* await self._insert_audit(...); return self._row_to_ticket(row)
ChangeStatusAudit(p) ==
    /\ change[p].at = "audit"
    /\ audit_logs' = Append(audit_logs,
                            [from_status |-> change[p].from_status,
                             to_status |-> change[p].new_status])
    /\ change' = [change EXCEPT ![p].at = "idle"]
    /\ UNCHANGED <<ticket, changes>>
    /\ TicketFrame

NextTickets ==
    \E p \in Tasks :
        \/ ChangeStatusCall(p)
        \/ ChangeStatusRejected(p)
        \/ ChangeStatusChecked(p)
        \/ ChangeStatusUpdate(p)
        \/ ChangeStatusAudit(p)

SpecTickets == InitTickets /\ [][NextTickets]_vars

\* C30: every change of the stored status is an allowed transition from
\* the status stored before it -- so a closed ticket stays closed -- and a
\* rejected change_status leaves the stored status as it was.
C30_OnlyAllowedTransitions ==
    [][/\ ticket'.status # ticket.status
           => ticket'.status \in _TRANSITIONS[ticket.status]
       /\ (\E p \in Tasks :
              /\ change[p].at = "get"
              /\ change'[p].raised = "InvalidTicketTransitionError")
           => ticket'.status = ticket.status]_vars

\* the same for one caller, whose calls follow one another
C30_OnlyAllowedTransitionsOfOneCaller ==
    [][change["t2"] = NoChange =>
          (ticket'.status # ticket.status
              => ticket'.status \in _TRANSITIONS[ticket.status])]_vars

====
